---- MODULE Spec2Model ----
(***************************************************************************)
(* Model of the MCP bridge's per-connection session store                  *)
(* (mcp-bridge/src/session-manager.ts): the SessionManager class, its two  *)
(* maps, the objects they hold, the copies handed to callers and the       *)
(* cleanup interval.                                                       *)
(*                                                                         *)
(* Time is Date.now() in milliseconds.  Only the instants at which some    *)
(* handler runs matter, so the clock jumps between the instants of         *)
(* TimePoints; the interval timer is punctual (the clock never passes a    *)
(* due timer).  Session ids are the pair (Date.now(), Math.random()        *)
(* suffix) the template string of getOrCreate is built from; the random    *)
(* suffix is taken to make the id distinct from the ids in the store.      *)
(* The three Date.now() calls of one getOrCreate read the same instant.    *)
(***************************************************************************)
EXTENDS Integers, FiniteSets, Sequences, TLC

\* ---------------------------------------------------------------- bounds
\* number of cleanup periods the clock runs through in SpecTimed
MaxPeriods == 8
\* number of cleanup periods the clock runs through in Spec
ShortPeriods == 2
\* number of distinct Math.random() suffixes
NumRand == 2

\* ------------------------------------------------------ program constants
sessionTimeout == 30 * 60 * 1000
CleanupIntervalMs == 5 * 60 * 1000

\* ------------------------------------------------------------ value sets
ConnectionIds == {"c1", "c2"}
RandVals == 1..NumRand
\* the instants at which handlers run: the instants the interval timer is due
TimePoints == {k * CleanupIntervalMs : k \in 0..MaxPeriods}
ShortPoints == {k * CleanupIntervalMs : k \in 0..ShortPeriods}

Null == "null"
Fields == {"session_id", "user_id", "lang", "budget_tokens", "tenant", "created_at", "last_activity"}

\* ------------------------------------------------------- Map<K, V> of JS
\* a Map is the set of its <<key, value>> entries
MapHas(m, k) == \E p \in m : p[1] = k
MapGet(m, k) == (CHOOSE p \in m : p[1] = k)[2]
MapSet(m, k, v) == {p \in m : p[1] # k} \cup {<<k, v>>}
MapDelete(m, k) == {p \in m : p[1] # k}
MapValues(m) == {p[2] : p \in m}

VARIABLES
  heap,                 \* the SessionContext objects alive: address -> fields
  sessions,             \* Map<string, SessionContext>: session id -> object address
  connectionToSession,  \* Map<string, string>: connection id -> session id
  now,                  \* Date.now()
  nextCleanupAt,        \* the instant the setInterval callback is due next
  held,                 \* the returned object a caller still holds, and the call it came from
  lastSeen,             \* per connection: last_activity of the object last returned to it
  reaped,               \* the staleConnections of the latest cleanupStale run
  currentConnectionId,  \* eyes.ts: the connection id of the running MCP server
  lastCall,             \* the latest tool call: its input, the envelope, the request sent
  run,                  \* the Overseer's orchestration of one request
  instructions,         \* what getDynamicInstructions returned last, for which id, and when
  crypto,               \* the encryption utilities: the configuration, the latest plaintext,
                        \* what was made of it and what came back
  limiter,              \* the Quota Manager: clock, window buckets, calls in flight, admissions
  bus,                  \* the Pipeline Bus: topics, rings, subscribers and what they received
  csrf                  \* the admin front end: clock, tokens issued, the latest admin request

bridgeVars == <<currentConnectionId, lastCall>>
storeVars == <<heap, sessions, connectionToSession, now, nextCleanupAt, held, lastSeen, reaped>>
serviceVars == <<instructions, crypto, limiter, bus, csrf>>
vars == <<heap, sessions, connectionToSession, now, nextCleanupAt, held, lastSeen, reaped,
          currentConnectionId, lastCall, run, instructions, crypto, limiter, bus, csrf>>

\* ---------------------------------------------------------------- objects
\* `sess-${Date.now().toString(36)}-${Math.random().toString(36).slice(2, 9)}`
MintId(t, r) == <<t, r>>

\* the object literal of getOrCreate
NewSession(sid, t) ==
  [session_id |-> sid, user_id |-> Null, lang |-> "auto", budget_tokens |-> 0,
   tenant |-> Null, created_at |-> t, last_activity |-> t]

\* Object addresses.  The object built by getOrCreate's literal for session id
\* sid lives at RowAddr(sid); the objects built by `{ ...session }` live at the
\* copy addresses, of which a caller holds at most one at a time.
RowAddr(sid) == sid
CopyAddrs == {<<0 - 1, 1>>, <<0 - 1, 2>>}
NoRef == <<0 - 1, 0>>
NoHeld == [ref |-> NoRef, op |-> "none", conn |-> "-", fresh |-> FALSE]

\* allocation of a copy: an address the caller's object does not occupy
AllocCopy(hd) == IF hd.ref = <<0 - 1, 1>> THEN <<0 - 1, 2>> ELSE <<0 - 1, 1>>

\* addresses of the objects reachable from the store or from the caller
Live(S, hd) == MapValues(S) \cup (IF hd.ref = NoRef THEN {} ELSE {hd.ref})

\* garbage collection: objects no longer reachable disappear
Collect(h, live) == [a \in (DOMAIN h) \cap live |-> h[a]]

\* `return { ...session }`: a new object with the same fields
SpreadAlias(h, a, fresh) == [heap |-> h, ref |-> a]
SpreadCopy(h, a, fresh) == [heap |-> (fresh :> h[a]) @@ h, ref |-> fresh]

\* `sessionId && this.sessions.has(sessionId)`
HasSessionNever(S, C, c) == FALSE
HasSession(S, C, c) == MapHas(C, c) /\ MapHas(S, MapGet(C, c))

\* `this.connectionToSession.get(connectionId)` followed by `this.sessions.get(sessionId)!`
RowOfAny(S, C, c) == MapGet(S, (CHOOSE p \in C : TRUE)[2])
RowOf(S, C, c) == MapGet(S, MapGet(C, c))

\* `session.last_activity = Date.now()` of getOrCreate and get
Touched(session, t) == [session EXCEPT !.last_activity = t]

\* a Partial<SessionContext> is its keys and their values; Object.assign(session, updates)
AssignNothing(session, updates) == session
Assign(session, updates) ==
  [f \in Fields |-> IF f \in updates.keys THEN updates.vals[f] ELSE session[f]]

\* `Object.assign(session, updates); session.last_activity = Date.now();`
updateRecordNoStamp(session, updates, t) == Assign(session, updates)
updateRecord(session, updates, t) == [Assign(session, updates) EXCEPT !.last_activity = t]

\* `now - session.last_activity > this.sessionTimeout`
IsStaleInclusive(session, t) == t - session.last_activity >= sessionTimeout
IsStaleReversed(session, t) == session.last_activity - t > sessionTimeout
IsStaleByCreation(session, t) == t - session.created_at > sessionTimeout
IsStale(session, t) == t - session.last_activity > sessionTimeout

\* getOrCreate(connectionId), with r the Math.random suffix it draws: the
\* objects and the two maps after the call, and the stored object whose copy
\* is returned
getOrCreate(h, S, C, c, t, r) ==
  IF HasSession(S, C, c)
    THEN [heap |-> [h EXCEPT ![RowOf(S, C, c)] = Touched(h[RowOf(S, C, c)], t)],
          s |-> S, c |-> C, ref |-> RowOf(S, C, c)]
    ELSE [heap |-> (RowAddr(MintId(t, r)) :> NewSession(MintId(t, r), t)) @@ h,
          s |-> MapSet(S, MintId(t, r), RowAddr(MintId(t, r))),
          c |-> MapSet(C, c, MintId(t, r)),
          ref |-> RowAddr(MintId(t, r))]

\* the suffixes Math.random may give getOrCreate: those that make the id one
\* no row is stored under (no id is minted when the session exists)
FreshRand(S, C, c, t) ==
  IF HasSession(S, C, c) THEN {1} ELSE {r \in RandVals : ~MapHas(S, MintId(t, r))}

\* update(connectionId, updates): the same, with NoRef when it throws
updateOrInsert(h, S, C, c, updates, t) ==
  IF ~HasSession(S, C, c)
    THEN [heap |-> (RowAddr(MintId(t, 1)) :> updateRecord(NewSession(MintId(t, 1), t), updates, t)) @@ h,
          s |-> MapSet(S, MintId(t, 1), RowAddr(MintId(t, 1))),
          c |-> MapSet(C, c, MintId(t, 1)),
          ref |-> RowAddr(MintId(t, 1))]
    ELSE [heap |-> [h EXCEPT ![RowOf(S, C, c)] = updateRecord(h[RowOf(S, C, c)], updates, t)],
          s |-> S, c |-> C, ref |-> RowOf(S, C, c)]
update(h, S, C, c, updates, t) ==
  IF ~HasSession(S, C, c)
    THEN [heap |-> h, s |-> S, c |-> C, ref |-> NoRef]
    ELSE [heap |-> [h EXCEPT ![RowOf(S, C, c)] = updateRecord(h[RowOf(S, C, c)], updates, t)],
          s |-> S, c |-> C, ref |-> RowOf(S, C, c)]

\* get(connectionId): the same, with NoRef when it returns null
getCreates(h, S, C, c, t) ==
  IF ~HasSession(S, C, c)
    THEN [heap |-> (RowAddr(MintId(t, 1)) :> NewSession(MintId(t, 1), t)) @@ h,
          s |-> MapSet(S, MintId(t, 1), RowAddr(MintId(t, 1))),
          c |-> MapSet(C, c, MintId(t, 1)),
          ref |-> RowAddr(MintId(t, 1))]
    ELSE [heap |-> [h EXCEPT ![RowOf(S, C, c)] = Touched(h[RowOf(S, C, c)], t)],
          s |-> S, c |-> C, ref |-> RowOf(S, C, c)]
getWithoutTouch(h, S, C, c, t) ==
  IF ~HasSession(S, C, c)
    THEN [heap |-> h, s |-> S, c |-> C, ref |-> NoRef]
    ELSE [heap |-> h, s |-> S, c |-> C, ref |-> RowOf(S, C, c)]
get(h, S, C, c, t) ==
  IF ~HasSession(S, C, c)
    THEN [heap |-> h, s |-> S, c |-> C, ref |-> NoRef]
    ELSE [heap |-> [h EXCEPT ![RowOf(S, C, c)] = Touched(h[RowOf(S, C, c)], t)],
          s |-> S, c |-> C, ref |-> RowOf(S, C, c)]

\* cleanup(connectionId): the two maps after the call
cleanupKeepsRow(S, C, c) ==
  IF MapHas(C, c) THEN [s |-> S, c |-> MapDelete(C, c)] ELSE [s |-> S, c |-> C]
cleanupKeepsBinding(S, C, c) ==
  IF MapHas(C, c) THEN [s |-> MapDelete(S, MapGet(C, c)), c |-> C] ELSE [s |-> S, c |-> C]
cleanup(S, C, c) ==
  IF MapHas(C, c)
    THEN [s |-> MapDelete(S, MapGet(C, c)), c |-> MapDelete(C, c)]
    ELSE [s |-> S, c |-> C]

\* the first loop of cleanupStale: the connections whose session is stale
StaleConnections(h, S, C, t) ==
  {p[1] : p \in {q \in C : MapHas(S, q[2]) /\ IsStale(h[MapGet(S, q[2])], t)}}

\* the second loop of cleanupStale: cleanup of each stale connection in turn
RECURSIVE CleanupEach(_, _, _)
CleanupEach(S, C, stale) ==
  IF stale = {} THEN [s |-> S, c |-> C]
  ELSE LET c == CHOOSE x \in stale : TRUE
           r == cleanup(S, C, c)
       IN CleanupEach(r.s, r.c, stale \ {c})

\* the diffs callers pass to update
DiffVals ==
  [session_id |-> MintId(0, 1), user_id |-> Null, lang |-> "en", budget_tokens |-> 0,
   tenant |-> Null, created_at |-> 0, last_activity |-> 0]
Diffs ==
  { [keys |-> {}, vals |-> DiffVals],
    [keys |-> {"lang"}, vals |-> DiffVals],
    [keys |-> {"session_id", "last_activity", "created_at"}, vals |-> DiffVals] }
TimedDiffs ==
  { [keys |-> {}, vals |-> DiffVals],
    [keys |-> {"last_activity"}, vals |-> DiffVals] }

\* what a caller may write into an object it was handed
Writes == {<<"lang", "ar">>, <<"last_activity", 0>>}

\* dynamic-instructions.ts, getConnectionId(): a constant, which is none of
\* the ids generateConnectionId makes
InstructionsConnectionId == "default-connection"
\* the four texts getDynamicInstructions chooses between
instructionsFor(h, ref) ==
  IF ref = NoRef THEN "no session"
  ELSE IF h[ref].budget_tokens = 0 THEN "ready"
  ELSE IF h[ref].lang = "ar" THEN "arabic"
  ELSE "session active"
\* the server is constructed with the instructions of that moment
FirstInstructions == [conn |-> InstructionsConnectionId, text |-> "no session", at |-> 0]

\* nothing has been encrypted and the configuration has not been read
NoOut == [done |-> FALSE, ok |-> FALSE, text |-> <<>>]
NoCrypto == [config |-> "unread", has |-> "nothing", plaintext |-> <<>>, data |-> <<>>,
             buffer |-> <<>>, out |-> NoOut]

\* the Quota Manager before any call
NoDecision == [made |-> FALSE, admitted |-> FALSE, current_usage |-> 0, limit |-> 0]
NoLimiter == [clock |-> 0, buckets |-> <<>>, pending |-> {}, admissions |-> <<>>,
              last |-> NoDecision]

\* the Pipeline Bus with no topic and no subscriber
Topics == {"s1", "s2"}
Subscribers == {"a", "b"}
NoSubscription == [session |-> "-", queue |-> <<>>, drops |-> 0, delivered |-> <<>>]
NoBus == [clock |-> 0,
          seq |-> [x \in Topics |-> 0],
          ring |-> [x \in Topics |-> <<>>],
          published |-> [x \in Topics |-> <<>>],
          closed |-> {},
          subs |-> [s \in Subscribers |-> NoSubscription]]

\* the admin front end before any login
NoToken == [token |-> "-", timestamp |-> 0, signature |-> <<"-", "-", 0>>]
NoRequest == [method |-> "-", header |-> NoToken, cookie |-> NoToken, at |-> 0]
NoCsrf == [clock |-> 0, issued |-> {}, request |-> NoRequest, response |-> "-"]

\* no tool call has been made
NoCall == [conn |-> "-", raw |-> <<>>, envelope |-> <<>>, sent |-> <<>>, verdict |-> "-"]

\* the Overseer is idle
NoResponse == [ok |-> FALSE, code |-> "-", field |-> "-", next_action |-> "-", partial_results |-> <<>>]
NoRun ==
  [phase |-> "idle", request |-> <<>>, route |-> <<>>, k |-> 0, attempt |-> 0,
   log |-> <<>>, results |-> <<>>, response |-> NoResponse]

\* ------------------------------------------------------------------ Init
Init ==
  /\ heap = <<>>
  /\ sessions = {}
  /\ connectionToSession = {}
  /\ now = 0
  /\ nextCleanupAt = CleanupIntervalMs
  /\ held = NoHeld
  /\ lastSeen = [c \in ConnectionIds |-> 0 - 1]
  /\ reaped = {}
  /\ currentConnectionId = Null
  /\ lastCall = NoCall
  /\ run = NoRun
  /\ instructions = FirstInstructions
  /\ crypto = NoCrypto
  /\ limiter = NoLimiter
  /\ bus = NoBus
  /\ csrf = NoCsrf

\* --------------------------------------------------------------- actions
\* a call that hands out nothing new: what the caller holds is no longer the
\* result of the latest call
Stale(hd) == IF hd.ref = NoRef THEN NoHeld ELSE [hd EXCEPT !.fresh = FALSE]

\* the caller receives object `a` of heap `h` through `{ ...session }` and
\* either keeps it or drops it at once
Return(op, c, keep, h, S, a) ==
  LET r == SpreadCopy(h, a, AllocCopy(held))
      hd == IF keep THEN [ref |-> r.ref, op |-> op, conn |-> c, fresh |-> TRUE]
                    ELSE Stale(held)
  IN /\ lastSeen' = [lastSeen EXCEPT ![c] = r.heap[r.ref].last_activity]
     /\ held' = hd
     /\ heap' = Collect(r.heap, Live(S, hd))

GetOrCreate(c, keep) ==
  /\ UNCHANGED <<now, nextCleanupAt, reaped, bridgeVars, run, serviceVars>>
  /\ \E r \in FreshRand(sessions, connectionToSession, c, now) :
       LET g == getOrCreate(heap, sessions, connectionToSession, c, now, r)
       IN /\ sessions' = g.s
          /\ connectionToSession' = g.c
          /\ Return("getOrCreate", c, keep, g.heap, g.s, g.ref)

\* the caller catches the Error thrown and either keeps it or drops it at once
Throw(op, c, keep) ==
  IF keep THEN [ref |-> NoRef, op |-> op, conn |-> c, fresh |-> TRUE] ELSE Stale(held)

Update(c, updates, keep) ==
  LET u == update(heap, sessions, connectionToSession, c, updates, now)
  IN /\ UNCHANGED <<now, nextCleanupAt, reaped, bridgeVars, run, serviceVars>>
     /\ sessions' = u.s
     /\ connectionToSession' = u.c
     /\ IF u.ref = NoRef
          THEN \* throw new Error(...)
               /\ UNCHANGED lastSeen
               /\ held' = Throw("update throws", c, keep)
               /\ heap' = Collect(u.heap, Live(u.s, held'))
          ELSE Return("update", c, keep, u.heap, u.s, u.ref)

\* the caller receives null and either keeps it or drops it at once
ReturnNull(op, c, keep) ==
  IF keep THEN [ref |-> NoRef, op |-> op, conn |-> c, fresh |-> TRUE] ELSE Stale(held)

Get(c, keep) ==
  LET r == get(heap, sessions, connectionToSession, c, now)
  IN /\ UNCHANGED <<now, nextCleanupAt, reaped, bridgeVars, run, serviceVars>>
     /\ sessions' = r.s
     /\ connectionToSession' = r.c
     /\ IF r.ref = NoRef
          THEN /\ UNCHANGED lastSeen
               /\ held' = ReturnNull("get", c, keep)
               /\ heap' = Collect(r.heap, Live(r.s, held'))
          ELSE Return("get", c, keep, r.heap, r.s, r.ref)

Cleanup(c) ==
  LET r == cleanup(sessions, connectionToSession, c)
  IN /\ UNCHANGED <<now, nextCleanupAt, lastSeen, reaped, bridgeVars, run, serviceVars>>
     /\ sessions' = r.s
     /\ connectionToSession' = r.c
     /\ held' = Stale(held)
     /\ heap' = Collect(heap, Live(r.s, held))

cleanupStale ==
  LET staleConnections == StaleConnections(heap, sessions, connectionToSession, now)
      r == CleanupEach(sessions, connectionToSession, staleConnections)
  IN /\ UNCHANGED <<now, lastSeen, bridgeVars, run, serviceVars>>
     /\ reaped' = staleConnections
     /\ sessions' = r.s
     /\ connectionToSession' = r.c
     /\ held' = Stale(held)
     /\ heap' = Collect(heap, Live(r.s, held))

\* a direct call of the public method
CleanupStale ==
  /\ cleanupStale
  /\ UNCHANGED nextCleanupAt

\* setInterval(() => sessionManager.cleanupStale(), 5 * 60 * 1000)
IntervalFire ==
  /\ now = nextCleanupAt
  /\ cleanupStale
  /\ nextCleanupAt' = nextCleanupAt + CleanupIntervalMs

\* the caller writes a field of the object it holds
WriteReturned(f, v) ==
  /\ held.ref # NoRef
  /\ heap' = [heap EXCEPT ![held.ref][f] = v]
  /\ held' = Stale(held)
  /\ UNCHANGED <<sessions, connectionToSession, now, nextCleanupAt, lastSeen, reaped, bridgeVars, run, serviceVars>>

\* Date.now() advances; a due timer fires before the clock passes it
Tick(points) ==
  /\ \E t \in points : t > now /\ t <= nextCleanupAt /\ now' = t
  /\ UNCHANGED <<heap, sessions, connectionToSession, nextCleanupAt, held, lastSeen, reaped,
                  bridgeVars, run, serviceVars>>

\* two connections whose callers drop what they are handed, over a short
\* stretch of time, with diffs that write every kind of field
Next ==
  \/ \E c \in ConnectionIds : GetOrCreate(c, FALSE)
  \/ \E c \in ConnectionIds, d \in Diffs : Update(c, d, FALSE)
  \/ \E c \in ConnectionIds : Get(c, FALSE)
  \/ \E c \in ConnectionIds : Cleanup(c)
  \/ CleanupStale
  \/ IntervalFire
  \/ Tick(ShortPoints)

Spec == Init /\ [][Next]_vars

\* one connection whose caller keeps or drops what it is handed and writes
\* into it, over a short stretch of time
NextCopies ==
  \/ \E keep \in BOOLEAN : GetOrCreate("c1", keep)
  \/ \E d \in Diffs, keep \in BOOLEAN : Update("c1", d, keep)
  \/ \E keep \in BOOLEAN : Get("c1", keep)
  \/ Cleanup("c1")
  \/ CleanupStale
  \/ IntervalFire
  \/ \E w \in Writes : WriteReturned(w[1], w[2])
  \/ Tick(ShortPoints)

SpecCopies == Init /\ [][NextCopies]_vars

\* two connections whose callers drop what they are handed, over the time
\* sessions need to grow stale
NextTimed ==
  \/ \E c \in ConnectionIds : GetOrCreate(c, FALSE)
  \/ \E c \in ConnectionIds, d \in TimedDiffs : Update(c, d, FALSE)
  \/ \E c \in ConnectionIds : Get(c, FALSE)
  \/ \E c \in ConnectionIds : Cleanup(c)
  \/ CleanupStale
  \/ IntervalFire
  \/ Tick(TimePoints)

SpecTimed == Init /\ [][NextTimed]_vars

\* two connections over the time sessions need to grow stale: the session
\* of the first, once created, is only read, and its caller keeps or drops
\* what it is handed; the session of the second is left alone
NextReads ==
  \/ \E c \in ConnectionIds :
       ~HasSession(sessions, connectionToSession, c) /\ GetOrCreate(c, FALSE)
  \/ \E keep \in BOOLEAN : Get("c1", keep)
  \/ IntervalFire
  \/ Tick(TimePoints)

SpecReads == Init /\ [][NextReads]_vars

\* ------------------------------------------------- the bridge (eyes.ts)
\* A JS object is the function from its keys to their values; an absent key is
\* undefined.  A value is a record of its typeof tag `t` and its content; the
\* values one key takes all have the same shape.
Has(o, k) == k \in DOMAIN o
Pick(o, ks) == [k \in ks \cap DOMAIN o |-> o[k]]
\* typeof v === "object" && v !== null
IsObject(v) == v.t = "object"

\* const RESERVED_WRAPPER_KEYS = new Set([...])
RESERVED_WRAPPER_KEYS == {"signal", "_meta", "requestId", "progressToken", "arguments"}

\* extractEnvelope(raw)
extractEnvelopeFiltersRawOnly(raw) ==
  IF Has(raw, "arguments") /\ IsObject(raw["arguments"])
    THEN raw["arguments"].v
    ELSE Pick(raw, DOMAIN raw \ RESERVED_WRAPPER_KEYS)
extractEnvelope(raw) ==
  LET envelope == IF Has(raw, "arguments") /\ IsObject(raw["arguments"])
                    THEN raw["arguments"].v
                    ELSE raw
  IN Pick(envelope, DOMAIN envelope \ RESERVED_WRAPPER_KEYS)

\* the five fields of the bridge's SessionContext
CtxFields == {"session_id", "user_id", "lang", "budget_tokens", "tenant"}

\* the empty string, as the content of a string holding a session id
BlankId == <<0 - 2, 0>>
\* s.trim(): the content without the padding; an all-blank string is falsy
Trimmed(v) == v.v
\* typeof x === "string" && x.trim()
IsText(o, k, blank) == Has(o, k) /\ o[k].t = "string" /\ Trimmed(o[k]) # blank
\* x === null
IsNull(o, k) == Has(o, k) /\ o[k].t = "null"
\* Number(x): NaN for undefined and for text that is no numeral, 0 for null
ToNumber(o, k) ==
  IF ~Has(o, k) THEN [finite |-> FALSE, n |-> 0]
  ELSE IF o[k].t = "null" THEN [finite |-> TRUE, n |-> 0]
  ELSE [finite |-> o[k].numeral, n |-> o[k].v]

\* the `updates` coalesceContext builds from the context object `raw`
contextUpdatesNoTrimTest(raw) ==
  [keys |-> IF Has(raw, "session_id") /\ raw["session_id"].t = "string"
              THEN {"session_id"} ELSE {},
   vals |-> [DiffVals EXCEPT !.session_id =
               IF Has(raw, "session_id") THEN Trimmed(raw["session_id"]) ELSE BlankId]]
contextUpdates(raw) ==
  LET keys ==
        (IF IsText(raw, "session_id", BlankId) THEN {"session_id"} ELSE {})
        \cup (IF IsText(raw, "user_id", "") \/ IsNull(raw, "user_id") THEN {"user_id"} ELSE {})
        \cup (IF Has(raw, "lang") /\ raw["lang"].t = "string"
                   /\ raw["lang"].v \in {"en", "ar", "auto"} THEN {"lang"} ELSE {})
        \cup (IF ToNumber(raw, "budget_tokens").finite /\ ToNumber(raw, "budget_tokens").n >= 0
                THEN {"budget_tokens"} ELSE {})
        \cup (IF IsText(raw, "tenant", "") \/ IsNull(raw, "tenant") THEN {"tenant"} ELSE {})
      val(f) ==
        IF f \notin keys THEN DiffVals[f]
        ELSE IF f = "budget_tokens" THEN ToNumber(raw, f).n
        ELSE IF raw[f].t = "null" THEN Null
        ELSE Trimmed(raw[f])
  IN [keys |-> keys, vals |-> [f \in Fields |-> val(f)]]

\* ensureContext(), given the store after its getOrCreate and the object returned
ensureContext(session) == [f \in CtxFields |-> session[f]]

\* coalesceContext(input) on connection conn: the store after the call and
\* the context returned
coalesceContext(input, h, S, C, conn, t, r) ==
  LET g == getOrCreate(h, S, C, conn, t, r)
      base == ensureContext(g.heap[g.ref])
  IN IF ~IsObject(input)
       THEN [store |-> g, context |-> base, threw |-> FALSE]
       ELSE LET updates == contextUpdates(input.v)
                u == IF updates.keys # {}
                       THEN update(g.heap, g.s, g.c, conn, updates, t)
                       ELSE g
            IN [store |-> u,
                context |-> [f \in CtxFields |->
                               IF f \in updates.keys THEN updates.vals[f] ELSE base[f]],
                threw |-> u.ref = NoRef]

\* o[k], undefined for a key the object does not have
Undefined == [t |-> "undefined"]
Read(o, k) == IF Has(o, k) THEN o[k] ELSE Undefined

\* callEye, up to the fetch: the envelope as lines 182-186 leave it, and the
\* body of the request
EmptyObject == [t |-> "object", v |-> <<>>]
JsNull == [t |-> "null", len |-> 0]
envelopeOfKeepsPayload(cleaned, mergedContext) == ("context" :> mergedContext) @@ cleaned
envelopeOf(cleaned, mergedContext) ==
  ("context" :> mergedContext)
  @@ ("payload" :> IF Has(cleaned, "payload") /\ IsObject(cleaned["payload"])
                     THEN cleaned["payload"] ELSE EmptyObject)
  @@ cleaned
\* JSON.stringify(finalPayload) leaves out a key whose value is undefined
finalPayloadOf(envelope) ==
  Pick(envelope, {"context", "payload"})
  @@ ("reasoning_md" :> IF Has(envelope, "reasoning_md") /\ envelope["reasoning_md"].len > 0
                          THEN envelope["reasoning_md"] ELSE JsNull)

\* ---- the Overseer's validation of a request (orchestrate: input constraints)
StrictIntentMin == 5
StrictReasoningMin == 10
RelaxedIntentMin == 1
MinEntries == 1

\* strict unless the request says strict_mode: false
IsStrictMode(request) == ~Has(request, "strict_mode") \/ request["strict_mode"].v
PayloadOf(request) ==
  IF Has(request, "payload") /\ IsObject(request["payload"]) THEN request["payload"].v ELSE <<>>
\* the length of a text and the number of entries of a mapping, 0 when absent
IntentLen(request) ==
  IF Has(PayloadOf(request), "intent") THEN PayloadOf(request)["intent"].len ELSE 0
EntriesOf(request, k) ==
  IF Has(PayloadOf(request), k) THEN PayloadOf(request)[k].size ELSE 0
ReasoningLen(request) ==
  IF Has(request, "reasoning_md") THEN request["reasoning_md"].len ELSE 0

\* the field whose check fails first, "" when the envelope is accepted
validateEnvelopeSkipsReasoning(request) ==
  IF IsStrictMode(request)
    THEN IF IntentLen(request) < StrictIntentMin THEN "intent"
         ELSE IF EntriesOf(request, "work") < MinEntries THEN "work"
         ELSE IF EntriesOf(request, "context_info") < MinEntries THEN "context_info"
         ELSE ""
    ELSE IF IntentLen(request) < RelaxedIntentMin THEN "intent" ELSE ""
validateEnvelope(request) ==
  IF IsStrictMode(request)
    THEN IF IntentLen(request) < StrictIntentMin THEN "intent"
         ELSE IF EntriesOf(request, "work") < MinEntries THEN "work"
         ELSE IF EntriesOf(request, "context_info") < MinEntries THEN "context_info"
         ELSE IF ReasoningLen(request) < StrictReasoningMin THEN "reasoning_md"
         ELSE ""
    ELSE IF IntentLen(request) < RelaxedIntentMin THEN "intent" ELSE ""

\* ---- the tool calls an MCP client makes
\* a session id the client supplies
ClientId == <<0 - 2, 1>>
Str(pad, v) == [t |-> "string", pad |-> pad, v |-> v]
NotStr(t) == [t |-> t, pad |-> FALSE, v |-> ""]
Num(t, numeral, n) == [t |-> t, numeral |-> numeral, v |-> n]
Text(len) == [t |-> "string", len |-> len]
Props(size) == [t |-> "object", size |-> size]
Obj(o) == [t |-> "object", v |-> o]
NotObj(t) == [t |-> t, v |-> <<>>]

\* context objects: every field given and padded; every field given and
\* refused; a session id that is no string; no field
ContextObjects ==
  { [session_id |-> Str(TRUE, ClientId), user_id |-> Str(TRUE, "u1"),
     lang |-> [t |-> "string", v |-> "en"], budget_tokens |-> Num("number", TRUE, 7),
     tenant |-> NotStr("null")],
    [session_id |-> Str(TRUE, BlankId), user_id |-> NotStr("number"),
     lang |-> [t |-> "string", v |-> "fr"], budget_tokens |-> Num("number", TRUE, 0 - 1),
     tenant |-> Str(TRUE, "")],
    [session_id |-> [t |-> "number", pad |-> FALSE, v |-> BlankId],
     user_id |-> NotStr("null"), lang |-> [t |-> "string", v |-> "ar"],
     budget_tokens |-> Num("null", FALSE, 0), tenant |-> Str(FALSE, "t1")],
    <<>> }
ContextVals == {Obj(o) : o \in ContextObjects} \cup {NotObj("null"), NotObj("string")}

PayloadObjects ==
  { [intent |-> Text(20), work |-> Props(1), context_info |-> Props(1)],
    [intent |-> Text(4)] }
PayloadVals == {Obj(o) : o \in PayloadObjects} \cup {NotObj("null"), NotObj("string")}

ReasoningVals == {Text(0), Text(20)}

\* the keys a call may carry besides context, payload and reasoning_md
WrapperVals ==
  [signal |-> [t |-> "object"], _meta |-> [t |-> "object"], requestId |-> [t |-> "number"],
   progressToken |-> [t |-> "string"], strict_mode |-> [t |-> "boolean", v |-> FALSE],
   extra |-> Text(3)]
OtherKeySets ==
  { {}, {"strict_mode"}, {"strict_mode", "extra"},
    {"signal", "_meta", "requestId", "progressToken"},
    {"signal", "_meta", "requestId", "progressToken", "strict_mode", "extra"} }

\* envelopes that differ in their context
ContextEnvelopes ==
  { Pick([context |-> c, payload |-> Obj([intent |-> Text(4)]), reasoning_md |-> Text(20)], ks) :
      c \in ContextVals, ks \in {{"context", "payload", "reasoning_md"}, {"payload"}} }

\* envelopes that differ in their other keys
PayloadEnvelopes ==
  { Pick([payload |-> p, reasoning_md |-> r], ks) @@ Pick(WrapperVals, os) :
      p \in PayloadVals, r \in ReasoningVals,
      ks \in {{"payload", "reasoning_md"}, {"payload"}, {"reasoning_md"}},
      os \in OtherKeySets }

\* a call as the MCP SDK hands it to the tool: the envelope itself, the
\* envelope under `arguments`, alone or beside the wrapper's keys, and the
\* envelope beside an `arguments` that is no object
Wrapped(e) ==
  { e,
    [arguments |-> Obj(e)],
    [arguments |-> Obj(e)] @@ Pick(WrapperVals, {"signal", "_meta", "requestId", "progressToken"}),
    [arguments |-> NotObj("string")] @@ e }
ContextBodies == UNION {Wrapped(e) : e \in ContextEnvelopes}
PayloadBodies == UNION {Wrapped(e) : e \in PayloadEnvelopes}

\* getConnectionId(): the connection id generated once, by the first call
ConnectionIdOf(cur, C) ==
  IF cur = Null THEN {c \in ConnectionIds : ~MapHas(C, c)} ELSE {cur}

\* callEye(path, body), up to the fetch
CallEye(body) ==
  \E conn \in ConnectionIdOf(currentConnectionId, connectionToSession) :
    \E r \in FreshRand(sessions, connectionToSession, conn, now) :
      LET cleaned == extractEnvelope(body)
          merged == coalesceContext(Read(cleaned, "context"), heap, sessions,
                                    connectionToSession, conn, now, r)
          envelope == envelopeOf(cleaned, merged.context)
      IN /\ UNCHANGED <<now, nextCleanupAt, held, reaped, run, serviceVars>>
         /\ currentConnectionId' = conn
         /\ sessions' = merged.store.s
         /\ connectionToSession' = merged.store.c
         /\ heap' = merged.store.heap
         /\ lastSeen' = [lastSeen EXCEPT ![conn] = heap'[RowOf(sessions', connectionToSession', conn)].last_activity]
         /\ lastCall' = IF merged.threw
                           THEN \* sessionManager.update threw: nothing is sent
                                [conn |-> conn, raw |-> body, envelope |-> cleaned, sent |-> <<>>,
                                 verdict |-> "-"]
                           ELSE \* the request is posted and the Overseer validates it
                                [conn |-> conn, raw |-> body, envelope |-> envelope,
                                 sent |-> finalPayloadOf(envelope),
                                 verdict |-> validateEnvelope(finalPayloadOf(envelope))]

\* tool calls that differ in their context, over a short stretch of time
NextBridge ==
  \/ \E body \in ContextBodies : CallEye(body)
  \/ IntervalFire
  \/ Tick(ShortPoints)

SpecBridge == Init /\ [][NextBridge]_vars

\* tool calls that differ in their keys, one after another
NextEnvelope == \E body \in PayloadBodies : CallEye(body)

SpecEnvelope == Init /\ [][NextEnvelope]_vars

\* tool calls with and without a context, over the time a session lives
NextSessions ==
  \/ \E body \in ContextEnvelopes : CallEye(body)
  \/ IntervalFire
  \/ Tick(TimePoints)

SpecSessions == Init /\ [][NextSessions]_vars

\* getDynamicInstructions()
GetDynamicInstructions ==
  LET connectionId == InstructionsConnectionId
      r == get(heap, sessions, connectionToSession, connectionId, now)
  IN /\ UNCHANGED <<now, nextCleanupAt, held, lastSeen, reaped, bridgeVars, run, crypto,
                  limiter, bus, csrf>>
     /\ sessions' = r.s
     /\ connectionToSession' = r.c
     /\ heap' = r.heap
     /\ instructions' = [conn |-> connectionId, text |-> instructionsFor(r.heap, r.ref),
                         at |-> now]

\* tool calls and requests for the instructions, over a short stretch of time
NextInstructions ==
  \/ \E body \in ContextEnvelopes : CallEye(body)
  \/ GetDynamicInstructions
  \/ IntervalFire
  \/ Tick(ShortPoints)

SpecInstructions == Init /\ [][NextInstructions]_vars

\* ------------------------------------------------- encryption utilities
\* longest plaintext, in UTF-16 code units
MaxLen == 2

IV_LENGTH == 12
SALT_LENGTH == 32
TAG_LENGTH == 16

\* a JS string is a sequence of UTF-16 code units: a character of the basic
\* plane, a high surrogate, a low surrogate
CodeUnits == {"a", "H", "L"}
Plaintexts == UNION {[1..n -> CodeUnits] : n \in 0..MaxLen}

\* the string as UTF-8 (cipher.update(plaintext, 'utf8')), one element per
\* code point: a surrogate pair is one code point, a lone surrogate is
\* written as U+FFFD
RECURSIVE Utf8Encode(_)
Utf8Encode(str) ==
  IF str = <<>> THEN <<>>
  ELSE IF Len(str) >= 2 /\ str[1] = "H" /\ str[2] = "L"
    THEN <<"HL">> \o Utf8Encode(SubSeq(str, 3, Len(str)))
  ELSE IF str[1] \in {"H", "L"} THEN <<"U+FFFD">> \o Utf8Encode(Tail(str))
  ELSE <<str[1]>> \o Utf8Encode(Tail(str))
\* the bytes as a string (decipher.update(..., 'utf8'))
RECURSIVE Utf8Decode(_)
Utf8Decode(bytes) ==
  IF bytes = <<>> THEN <<>>
  ELSE (IF bytes[1] = "HL" THEN <<"H", "L">> ELSE <<bytes[1]>>) \o Utf8Decode(Tail(bytes))

\* config.security.encryptionKey: undefined, empty, or a key
EncryptionKeys == {"undefined", "", "configured key"}
\* randomBytes(n): n bytes drawn at random
randomBytes(n, v) == [i \in 1..n |-> v]
\* getEncryptionKey(): the keys a call may return
getEncryptionKey(encryptionKey) ==
  IF encryptionKey \notin {"undefined", ""} THEN {<<"given", encryptionKey>>}
  ELSE {<<"random", v>> : v \in RandVals}

\* pbkdf2Sync(masterKey, salt, ...)
deriveKey(masterKey, salt) == <<masterKey, salt>>
\* AES-256-GCM: the ciphertext and the authentication tag under key and iv
Cipher(key, iv, bytes) == [i \in 1..Len(bytes) |-> [key |-> key, iv |-> iv, byte |-> bytes[i]]]
AuthTag(key, iv, encrypted) == [i \in 1..TAG_LENGTH |-> <<key, iv, encrypted>>]

\* encrypt(plaintext), with the master key, salt and iv it draws
encrypt(plaintext, masterKey, saltv, ivv) ==
  LET salt == randomBytes(SALT_LENGTH, saltv)
      iv == randomBytes(IV_LENGTH, ivv)
      key == deriveKey(masterKey, salt)
      encrypted == Cipher(key, iv, Utf8Encode(plaintext))
  IN [encrypted |-> encrypted, iv |-> iv, salt |-> salt, tag |-> AuthTag(key, iv, encrypted)]

\* decrypt(data), with the master key it gets: the text, or the Error thrown
\* when the tag does not verify
decrypt(data, masterKey) ==
  LET key == deriveKey(masterKey, data.salt)
  IN IF data.tag = AuthTag(key, data.iv, data.encrypted)
       THEN [done |-> TRUE, ok |-> TRUE,
             text |-> Utf8Decode([i \in 1..Len(data.encrypted) |-> data.encrypted[i].byte])]
       ELSE [done |-> TRUE, ok |-> FALSE, text |-> <<>>]

\* [salt:32][iv:12][tag:16][encrypted:remaining]
serializeEncrypted(data) == data.salt \o data.iv \o data.tag \o data.encrypted
deserializeEncrypted(buffer) ==
  [salt |-> SubSeq(buffer, 1, SALT_LENGTH),
   iv |-> SubSeq(buffer, SALT_LENGTH + 1, SALT_LENGTH + IV_LENGTH),
   tag |-> SubSeq(buffer, SALT_LENGTH + IV_LENGTH + 1, SALT_LENGTH + IV_LENGTH + TAG_LENGTH),
   encrypted |-> SubSeq(buffer, SALT_LENGTH + IV_LENGTH + TAG_LENGTH + 1, Len(buffer))]

\* the process starts with the configuration it is given
LoadConfig(encryptionKey) ==
  /\ crypto.config = "unread"
  /\ crypto' = [crypto EXCEPT !.config = encryptionKey]
  /\ UNCHANGED <<heap, sessions, connectionToSession, now, nextCleanupAt, held, lastSeen,
                 reaped, bridgeVars, run, instructions, limiter, bus, csrf>>

Encrypt(plaintext) ==
  /\ crypto.config # "unread"
  /\ \E masterKey \in getEncryptionKey(crypto.config), saltv \in RandVals, ivv \in RandVals :
       crypto' = [crypto EXCEPT !.has = "data", !.plaintext = plaintext,
                                !.data = encrypt(plaintext, masterKey, saltv, ivv),
                                !.buffer = <<>>, !.out = NoOut]
  /\ UNCHANGED <<heap, sessions, connectionToSession, now, nextCleanupAt, held, lastSeen,
                 reaped, bridgeVars, run, instructions, limiter, bus, csrf>>

Decrypt ==
  /\ crypto.has = "data"
  /\ \E masterKey \in getEncryptionKey(crypto.config) :
       crypto' = [crypto EXCEPT !.out = decrypt(crypto.data, masterKey)]
  /\ UNCHANGED <<heap, sessions, connectionToSession, now, nextCleanupAt, held, lastSeen,
                 reaped, bridgeVars, run, instructions, limiter, bus, csrf>>

EncryptForStorage(plaintext) ==
  /\ crypto.config # "unread"
  /\ \E masterKey \in getEncryptionKey(crypto.config), saltv \in RandVals, ivv \in RandVals :
       crypto' = [crypto EXCEPT !.has = "buffer", !.plaintext = plaintext, !.data = <<>>,
                                !.buffer = serializeEncrypted(encrypt(plaintext, masterKey,
                                                                      saltv, ivv)),
                                !.out = NoOut]
  /\ UNCHANGED <<heap, sessions, connectionToSession, now, nextCleanupAt, held, lastSeen,
                 reaped, bridgeVars, run, instructions, limiter, bus, csrf>>

DecryptFromStorage ==
  /\ crypto.has = "buffer"
  /\ \E masterKey \in getEncryptionKey(crypto.config) :
       crypto' = [crypto EXCEPT !.out =
                    IF Len(crypto.buffer) < SALT_LENGTH + IV_LENGTH + TAG_LENGTH
                      THEN [done |-> TRUE, ok |-> FALSE, text |-> <<>>]
                      ELSE decrypt(deserializeEncrypted(crypto.buffer), masterKey)]
  /\ UNCHANGED <<heap, sessions, connectionToSession, now, nextCleanupAt, held, lastSeen,
                 reaped, bridgeVars, run, instructions, limiter, bus, csrf>>

NextCrypto ==
  \/ \E encryptionKey \in EncryptionKeys : LoadConfig(encryptionKey)
  \/ \E plaintext \in Plaintexts : Encrypt(plaintext)
  \/ Decrypt
  \/ \E plaintext \in Plaintexts : EncryptForStorage(plaintext)
  \/ DecryptFromStorage

SpecCrypto == Init /\ [][NextCrypto]_vars

\* ------------------------------------------------- the Overseer (orchestrate)
\* longest list of Eye names the routing step returns
MaxRoute == 2

KnownEyes == {"sharingan", "rinnegan"}
EyeNames == KnownEyes \cup {"unregistered"}
DefaultEye == "sharingan"
\* eyes_needed, as the routing Eye returns it
RouteLists == UNION {[1..n -> EyeNames] : n \in 0..MaxRoute}

\* the classes of a failed provider call, and those the Overseer retries
ErrorClasses == {"timeout", "auth", "rate_limited", "upstream_5xx", "network"}
RetriedClasses == {"timeout", "upstream_5xx"}
\* what an invoked Eye comes back with: a result (ok, not ok, clarification
\* required, revision required) or a classified error
Outcomes == {"ok", "not_ok", "clarify", "revise"} \cup ErrorClasses

\* requests posted to /eyes/overseer/orchestrate
Requests ==
  { Pick([payload |-> Obj(Pick([intent |-> Text(i), work |-> Props(w),
                                context_info |-> Props(c)], pk)),
          reasoning_md |-> rs,
          strict_mode |-> [t |-> "boolean", v |-> sm]], ks) :
      i \in {0, RelaxedIntentMin, StrictIntentMin - 1, StrictIntentMin},
      w \in {0, MinEntries}, c \in {0, MinEntries},
      pk \in {{"intent", "work", "context_info"}, {"intent"}, {}},
      rs \in {Text(StrictReasoningMin - 1), Text(StrictReasoningMin), JsNull},
      sm \in BOOLEAN,
      ks \in {{"payload", "reasoning_md", "strict_mode"}, {"payload", "reasoning_md"},
              {"payload", "strict_mode"}} }

\* the routed sequence: registered names only, each once, in order of first
\* occurrence; the default Eye when nothing is left
RECURSIVE Resolve(_, _)
Resolve(list, acc) ==
  IF list = <<>> THEN acc
  ELSE Resolve(Tail(list),
               IF Head(list) \in KnownEyes /\ \A n \in DOMAIN acc : acc[n] # Head(list)
                 THEN Append(acc, Head(list)) ELSE acc)
resolveRoute(eyes_needed) ==
  IF Resolve(eyes_needed, <<>>) = <<>> THEN <<DefaultEye>> ELSE Resolve(eyes_needed, <<>>)

Respond(ok, code, field, next_action, partial) ==
  [ok |-> ok, code |-> code, field |-> field, next_action |-> next_action,
   partial_results |-> partial]

\* short-circuit: the Eye asks for clarifications or for a revision
StopsOnRevisionOnly(outcome) == outcome = "revise"
Stops(outcome) == outcome \in {"clarify", "revise"}
NextActionOf(outcome) == IF outcome = "clarify" THEN "submit_clarifications" ELSE "revise"

\* the failed invocation is repeated: a retried class, and not yet retried
RetriesNever(r, outcome) == FALSE
Retries(r, outcome) == outcome \in RetriedClasses /\ r.attempt = 1

\* what a failed run returns of the Eyes that completed
PartialResultsNone(r) == <<>>
PartialResults(r) == r.results

\* step 3 and 4 of the execution loop: the run after Eye r.k came back with
\* `outcome`
aggregate(r, outcome) ==
  IF Stops(outcome)
    THEN [r EXCEPT !.phase = "done", !.results = Append(r.results, outcome),
                   !.response = Respond(FALSE, outcome, "-", NextActionOf(outcome), <<>>)]
  ELSE IF Retries(r, outcome)
    THEN [r EXCEPT !.attempt = r.attempt + 1]
  ELSE IF outcome \in ErrorClasses
    THEN [r EXCEPT !.phase = "done",
                   !.response = Respond(FALSE, "E_ORCHESTRATION_FAILED", "-", "-",
                                        PartialResults(r))]
  ELSE IF r.k = Len(r.route)
    THEN LET results == Append(r.results, outcome)
             ok == \A n \in DOMAIN results : results[n] = "ok"
         IN [r EXCEPT !.phase = "done", !.results = results,
                      !.response = Respond(ok, IF ok THEN "OK_ALL" ELSE "E_PARTIAL_FAIL",
                                           "-", "-", <<>>)]
  ELSE [r EXCEPT !.results = Append(r.results, outcome), !.k = r.k + 1, !.attempt = 1]

\* orchestrate(envelope, strict_mode): validation
Submit(request) ==
  /\ run.phase = "idle"
  /\ run' = IF validateEnvelope(request) # ""
              THEN [NoRun EXCEPT !.phase = "done", !.request = request,
                                 !.response = Respond(FALSE, "E_BAD_PAYLOAD_SCHEMA",
                                                      validateEnvelope(request), "-", <<>>)]
              ELSE [NoRun EXCEPT !.phase = "routing", !.request = request]
  /\ UNCHANGED <<heap, sessions, connectionToSession, now, nextCleanupAt, held, lastSeen,
                 reaped, bridgeVars, serviceVars>>

\* the routing Eye answers with eyes_needed
RouteDecided(eyes_needed) ==
  /\ run.phase = "routing"
  /\ run' = [run EXCEPT !.phase = "running", !.route = resolveRoute(eyes_needed),
                        !.k = 1, !.attempt = 1]
  /\ UNCHANGED <<heap, sessions, connectionToSession, now, nextCleanupAt, held, lastSeen,
                 reaped, bridgeVars, serviceVars>>

\* the routing call exceeds the LLM timeout
RouteFails ==
  /\ run.phase = "routing"
  /\ run' = [run EXCEPT !.phase = "done",
                        !.response = Respond(FALSE, "E_LLM_ERROR", "-", "-", <<>>)]
  /\ UNCHANGED <<heap, sessions, connectionToSession, now, nextCleanupAt, held, lastSeen,
                 reaped, bridgeVars, serviceVars>>

\* Eye run.k is invoked with the envelope and the results so far, and comes back
EyeReturns(outcome) ==
  /\ run.phase = "running"
  /\ run' = [aggregate(run, outcome) EXCEPT
               !.log = Append(run.log,
                              [k |-> run.k, eye |-> run.route[run.k], attempt |-> run.attempt,
                               input |-> [request |-> run.request, prior |-> run.results],
                               outcome |-> outcome])]
  /\ UNCHANGED <<heap, sessions, connectionToSession, now, nextCleanupAt, held, lastSeen,
                 reaped, bridgeVars, serviceVars>>

\* the response has been returned; the Overseer takes the next request
Returned ==
  /\ run.phase = "done"
  /\ run' = NoRun
  /\ UNCHANGED <<heap, sessions, connectionToSession, now, nextCleanupAt, held, lastSeen,
                 reaped, bridgeVars, serviceVars>>

NextOverseer ==
  \/ \E request \in Requests : Submit(request)
  \/ \E eyes_needed \in RouteLists : RouteDecided(eyes_needed)
  \/ RouteFails
  \/ \E outcome \in Outcomes : EyeReturns(outcome)
  \/ Returned

SpecOverseer == Init /\ [][NextOverseer]_vars

\* ------------------------------------------------- the Quota Manager
\* the last instant of the quota clock
MaxTick == 26

\* a window of W seconds split into 12 sub-buckets; the clock of the model
\* counts half bucket periods
SubBuckets == 12
TicksPerBucket == 2
WindowTicks == SubBuckets * TicksPerBucket
\* the tenant's limit L, and the K callers whose calls may be in flight together
QuotaLimit == 2
Callers == {"k1", "k2", "k3"}

\* the bucket an instant falls into
BucketOf(t) == t \div TicksPerBucket
\* the buckets of the last W seconds: those that hold usage from instants
\* later than t - W
LastWindowBuckets(t) ==
  {b \in 0..BucketOf(t) : (b + 1) * TicksPerBucket - 1 > t - WindowTicks}

RECURSIVE SumOver(_, _)
SumOver(buckets, bs) ==
  IF bs = {} THEN 0
  ELSE LET b == CHOOSE x \in bs : TRUE
       IN (IF b \in DOMAIN buckets THEN buckets[b] ELSE 0) + SumOver(buckets, bs \ {b})

\* sum + 1 > limit
ExceedsWhenOver(sum, limit) == sum > limit
Exceeds(sum, limit) == sum + 1 > limit

\* check_and_increment(tenant_id) at instant t: the decision and the buckets
\* after it
check_and_increment(buckets, t, limit) ==
  LET live == [b \in LastWindowBuckets(t) \cap DOMAIN buckets |-> buckets[b]]
      sum == SumOver(live, DOMAIN live)
  IN IF Exceeds(sum, limit)
       THEN [admitted |-> FALSE, current_usage |-> sum, limit |-> limit, buckets |-> live]
       ELSE [admitted |-> TRUE, current_usage |-> sum + 1, limit |-> limit,
             buckets |-> (BucketOf(t) :> sum - SumOver(live, DOMAIN live \ {BucketOf(t)}) + 1)
                         @@ live]

\* a request of the tenant arrives: its call is in flight
CallQuota(k) ==
  /\ k \notin limiter.pending
  /\ limiter' = [limiter EXCEPT !.pending = limiter.pending \cup {k}]
  /\ UNCHANGED <<storeVars, bridgeVars, run, instructions, crypto, bus, csrf>>

\* the call reaches the atomic compare-and-increment
CheckAndIncrement(k) ==
  /\ k \in limiter.pending
  /\ LET d == check_and_increment(limiter.buckets, limiter.clock, QuotaLimit)
         kept == SelectSeq(limiter.admissions, LAMBDA a : a > limiter.clock - WindowTicks)
     IN limiter' = [limiter EXCEPT
                      !.pending = limiter.pending \ {k},
                      !.buckets = d.buckets,
                      !.admissions = IF d.admitted THEN Append(kept, limiter.clock) ELSE kept,
                      !.last = [made |-> TRUE, admitted |-> d.admitted,
                                current_usage |-> d.current_usage, limit |-> d.limit]]
  /\ UNCHANGED <<storeVars, bridgeVars, run, instructions, crypto, bus, csrf>>

\* time passes
QuotaTick ==
  /\ limiter.clock < MaxTick
  /\ limiter' = [limiter EXCEPT !.clock = limiter.clock + 1]
  /\ UNCHANGED <<storeVars, bridgeVars, run, instructions, crypto, bus, csrf>>

NextQuota ==
  \/ \E k \in Callers : CallQuota(k)
  \/ \E k \in Callers : CheckAndIncrement(k)
  \/ QuotaTick

SpecQuota == Init /\ [][NextQuota]_vars

\* ------------------------------------------------- the Pipeline Bus
\* events published on the bus
MaxEvents == 3
\* the last instant of the bus clock
MaxBusClock == 1
\* events the ring buffer retains for replay
RingSize == 2
\* events one subscriber's delivery queue holds
QueueSize == 2

\* no last-seen sequence number: sequence numbers start at 1
NoLastSeen == 0

Event(n, t) == [seq |-> n, ts |-> t]

RECURSIVE PublishedOn(_, _)
\* how many events the sessions xs have had published
PublishedOn(b, xs) ==
  IF xs = {} THEN 0
  ELSE LET x == CHOOSE y \in xs : TRUE
       IN Len(b.published[x]) + PublishedOn(b, xs \ {x})

\* the sequence number after the topic's latest one
assignSeqAgain(latest) == latest
assignSeq(latest) == latest + 1

\* the ring keeps the last RingSize events
appendToRing(ring, e) ==
  IF Len(ring) >= RingSize THEN Append(Tail(ring), e) ELSE Append(ring, e)

\* hand an event to one subscriber; slowest-consumer policy: a full queue
\* loses its oldest undelivered event, the drop is counted, the new event
\* goes in
enqueueDropsNewest(sub, e) ==
  IF Len(sub.queue) >= QueueSize
    THEN [sub EXCEPT !.drops = @ + 1]
    ELSE [sub EXCEPT !.queue = Append(@, e)]
enqueue(sub, e) ==
  IF Len(sub.queue) >= QueueSize
    THEN [sub EXCEPT !.queue = Append(Tail(@), e), !.drops = @ + 1]
    ELSE [sub EXCEPT !.queue = Append(@, e)]

RECURSIVE replay(_, _)
replay(sub, events) ==
  IF events = <<>> THEN sub
  ELSE replay(enqueue(sub, Head(events)), Tail(events))

\* publish(session_id, event) at instant t, under the topic's lock
publish(b, x, t) ==
  LET e == Event(assignSeq(b.seq[x]), t)
  IN [b EXCEPT !.seq[x] = e.seq,
               !.ring[x] = appendToRing(@, e),
               !.published[x] = Append(@, e),
               !.subs = [s \in Subscribers |->
                           IF b.subs[s].session = x THEN enqueue(b.subs[s], e)
                           ELSE b.subs[s]]]

\* subscribe(session_id): a new stream, the ring replayed after last
subscribe(b, s, x, last) ==
  [b EXCEPT !.subs[s] =
     replay([NoSubscription EXCEPT !.session = x],
            SelectSeq(b.ring[x], LAMBDA e : e.seq > last))]

\* close(session_id): the topic and its subscribers go
close(b, x) ==
  [b EXCEPT !.ring[x] = <<>>,
            !.closed = @ \cup {x},
            !.subs = [s \in Subscribers |->
                        IF b.subs[s].session = x THEN NoSubscription ELSE b.subs[s]]]

Publish(x) ==
  /\ x \notin bus.closed
  /\ PublishedOn(bus, Topics) < MaxEvents
  /\ bus' = publish(bus, x, bus.clock)
  /\ UNCHANGED <<storeVars, bridgeVars, run, instructions, crypto, limiter, csrf>>

Subscribe(s, x, last) ==
  /\ x \notin bus.closed
  /\ bus.subs[s].session = "-"
  /\ last <= bus.seq[x]
  /\ bus' = subscribe(bus, s, x, last)
  /\ UNCHANGED <<storeVars, bridgeVars, run, instructions, crypto, limiter, csrf>>

\* the consumer takes the next event of its stream
Deliver(s) ==
  /\ bus.subs[s].queue # <<>>
  /\ bus' = [bus EXCEPT !.subs[s].queue = Tail(@),
                        !.subs[s].delivered = Append(@, Head(bus.subs[s].queue))]
  /\ UNCHANGED <<storeVars, bridgeVars, run, instructions, crypto, limiter, csrf>>

\* the subscriber calls cancel
Cancel(s) ==
  /\ bus.subs[s].session # "-"
  /\ bus' = [bus EXCEPT !.subs[s] = NoSubscription]
  /\ UNCHANGED <<storeVars, bridgeVars, run, instructions, crypto, limiter, csrf>>

Close(x) ==
  /\ x \notin bus.closed
  /\ bus' = close(bus, x)
  /\ UNCHANGED <<storeVars, bridgeVars, run, instructions, crypto, limiter, csrf>>

BusTick ==
  /\ bus.clock < MaxBusClock
  /\ bus' = [bus EXCEPT !.clock = bus.clock + 1]
  /\ UNCHANGED <<storeVars, bridgeVars, run, instructions, crypto, limiter, csrf>>

NextBus ==
  \/ \E x \in Topics : Publish(x)
  \/ \E s \in Subscribers, x \in Topics, last \in NoLastSeen..MaxEvents : Subscribe(s, x, last)
  \/ \E s \in Subscribers : Deliver(s)
  \/ \E s \in Subscribers : Cancel(s)
  \/ \E x \in Topics : Close(x)
  \/ BusTick

SpecBus == Init /\ [][NextBus]_vars

\* ------------------------------------------------- CSRF protection
\* hours the admin clock runs over
MaxHours == 2
\* tokens the server issues
MaxIssued == 1

\* seconds a token stays valid
CsrfValidity == 3600
\* the instants of the admin clock, in seconds: each full hour and the
\* second after it
CsrfInstants == {k * CsrfValidity + d : k \in 0..MaxHours, d \in {0, 1}}

SECRET == "server secret"
Secrets == {SECRET, "another secret"}
\* secrets.token_urlsafe(32)
TokenValues == {"r1", "r2"}
Methods == {"GET", "POST", "PUT", "DELETE"}
StateChanging == {"POST", "PUT", "DELETE"}

\* HMAC-SHA256 of token ":" timestamp under a secret: equal exactly when
\* secret, token and timestamp are
Hmac(secret, token, timestamp) == <<secret, token, timestamp>>

generate_csrf_token(token, t) ==
  [token |-> token, timestamp |-> t, signature |-> Hmac(SECRET, token, t)]

verifies(k) == k.signature = Hmac(SECRET, k.token, k.timestamp)

\* the token's timestamp is not within the validity window of t
neverExpired(k, t) == FALSE
expired(k, t) ==
  \/ t - k.timestamp > CsrfValidity
  \/ k.timestamp - t > CsrfValidity

\* the middleware's check of one admin request at instant t
csrf_protect(method, header, cookie, t) ==
  IF method \notin StateChanging THEN "ok"
  ELSE IF header # cookie THEN "E_CSRF_FAILED"
  ELSE IF ~verifies(header) THEN "E_CSRF_FAILED"
  ELSE IF expired(header, t) THEN "E_CSRF_FAILED"
  ELSE "ok"

\* what a client can send as header: nothing, a token the server issued, or
\* an issued token with its timestamp, or timestamp and signature, replaced;
\* the cookie it sends is the same value, nothing, or a token the server set
Presentable ==
  {NoToken} \cup csrf.issued
    \cup {[k EXCEPT !.timestamp = csrf.clock] : k \in csrf.issued}
    \cup {[k EXCEPT !.signature = Hmac(q, k.token, csrf.clock),
                    !.timestamp = csrf.clock] : k \in csrf.issued, q \in Secrets \ {SECRET}}

\* admin login: the server issues a token and sets it as the cookie
Login(token) ==
  /\ Cardinality(csrf.issued) < MaxIssued
  /\ csrf' = [csrf EXCEPT !.issued = @ \cup {generate_csrf_token(token, csrf.clock)}]
  /\ UNCHANGED <<storeVars, bridgeVars, run, instructions, crypto, limiter, bus>>

AdminRequest(method, header, cookie) ==
  /\ csrf' = [csrf EXCEPT
                !.request = [method |-> method, header |-> header,
                             cookie |-> cookie, at |-> csrf.clock],
                !.response = csrf_protect(method, header, cookie, csrf.clock)]
  /\ UNCHANGED <<storeVars, bridgeVars, run, instructions, crypto, limiter, bus>>

CsrfTick(t) ==
  /\ t > csrf.clock
  /\ csrf' = [csrf EXCEPT !.clock = t]
  /\ UNCHANGED <<storeVars, bridgeVars, run, instructions, crypto, limiter, bus>>

NextCsrf ==
  \/ \E token \in TokenValues : Login(token)
  \/ \E method \in Methods, header \in Presentable :
       \E cookie \in {header, NoToken} \cup csrf.issued :
         AdminRequest(method, header, cookie)
  \/ \E t \in CsrfInstants : CsrfTick(t)

SpecCsrf == Init /\ [][NextCsrf]_vars

\* ------------------------------------------------- what the claims speak of
OneSecondMs == 1 * 1000

\* the fields of the row connection c is bound to
RowRec(h, S, C, c) == h[RowOf(S, C, c)]
\* what connection c reads: whether it has a session, and the session's fields
View(h, S, C, c) ==
  <<HasSession(S, C, c), IF HasSession(S, C, c) THEN RowRec(h, S, C, c) ELSE DiffVals>>

CallGetOrCreate(c) == \E keep \in BOOLEAN : GetOrCreate(c, keep)
CallGet(c) == \E keep \in BOOLEAN : Get(c, keep)
CallUpdate(c) == \E d \in Diffs \cup TimedDiffs, keep \in BOOLEAN : Update(c, d, keep)
CallOn(c) == CallGetOrCreate(c) \/ CallGet(c) \/ CallUpdate(c) \/ Cleanup(c)
RunCleanupStale == CleanupStale \/ IntervalFire
CallerWrites == \E w \in Writes : WriteReturned(w[1], w[2])

\* the caller holds, unwritten, what the latest call returned, and that call
\* was getOrCreate(c)
JustGotOrCreated(c) == held.op = "getOrCreate" /\ held.conn = c /\ held.fresh

OneRowAndBinding(S, C, c) ==
  /\ Cardinality({p \in C : p[1] = c}) = 1
  /\ Cardinality({q \in S : q[1] = MapGet(C, c)}) = 1

\* C1 as claimed: getOrCreate(c) called again, with no write in between,
\* returns a copy equal to the one before and leaves one row and one binding
C1_AsClaimed ==
  [][\A c \in ConnectionIds :
       (JustGotOrCreated(c) /\ GetOrCreate(c, TRUE)) =>
         /\ heap'[held'.ref] = heap[held.ref]
         /\ OneRowAndBinding(sessions', connectionToSession', c)]_vars

\* C1 amended: getOrCreate(c) called again, with no write in between, returns
\* a copy equal to the one before in every field but last_activity, which is
\* the time of the call; the first call adds one row and one binding, the
\* later calls add none
C1_Idempotent ==
  [][\A c \in ConnectionIds :
       /\ (JustGotOrCreated(c) /\ GetOrCreate(c, TRUE)) =>
            /\ \A f \in Fields \ {"last_activity"} : heap'[held'.ref][f] = heap[held.ref][f]
            /\ heap'[held'.ref].last_activity = now
            /\ sessions' = sessions
            /\ connectionToSession' = connectionToSession
            /\ OneRowAndBinding(sessions', connectionToSession', c)
       /\ (~MapHas(connectionToSession, c) /\ CallGetOrCreate(c)) =>
            /\ Cardinality(sessions') = Cardinality(sessions) + 1
            /\ OneRowAndBinding(sessions', connectionToSession', c)]_vars

\* the copy in the caller's hands comes from a getOrCreate on a session that
\* an earlier call had created
C1_Witness ==
  \E c \in ConnectionIds :
    /\ JustGotOrCreated(c)
    /\ heap[held.ref].last_activity > heap[held.ref].created_at

\* C2: distinct connections are bound to distinct rows, and a call made
\* through one connection changes neither the binding nor the session that
\* another connection reads (no step that changes them for d is a call
\* through c)
C2_Isolation ==
  [][/\ \A p, q \in connectionToSession' : p[1] # q[1] => p[2] # q[2]
     /\ \A c, d \in ConnectionIds :
          (/\ c # d
           /\ \/ View(heap', sessions', connectionToSession', d)
                    # View(heap, sessions, connectionToSession, d)
              \/ {p \in connectionToSession' : p[1] = d} # {p \in connectionToSession : p[1] = d})
            => ~CallOn(c)]_vars

\* both connections have a session and one of them has been updated
C2_Witness ==
  /\ HasSession(sessions, connectionToSession, "c1")
  /\ HasSession(sessions, connectionToSession, "c2")
  /\ RowRec(heap, sessions, connectionToSession, "c1").lang = "en"
  /\ RowRec(heap, sessions, connectionToSession, "c2").lang = "auto"
  /\ RowRec(heap, sessions, connectionToSession, "c1").session_id
       = MapGet(connectionToSession, "c2")

\* C3: what a caller is handed is never an object of the store; a caller's
\* write into it changes no row, and no call changes the object the caller
\* still holds
C3_ValueCopies ==
  [][/\ held'.ref \notin MapValues(sessions')
     /\ CallerWrites => \A q \in sessions : heap'[q[2]] = heap[q[2]]
     /\ (held.ref # NoRef /\ held'.ref = held.ref /\ ~CallerWrites) =>
          heap'[held.ref] = heap[held.ref]]_vars

\* the caller wrote into the object it holds and the store wrote the row the
\* object was copied from: the two differ in both fields
C3_Witness ==
  \E c \in ConnectionIds :
    /\ held.conn = c
    /\ HasSession(sessions, connectionToSession, c)
    /\ heap[held.ref].lang = "ar"
    /\ RowRec(heap, sessions, connectionToSession, c).lang # "ar"
    /\ RowRec(heap, sessions, connectionToSession, c).last_activity
         > heap[held.ref].last_activity

\* the calls a request makes on its connection's session, as SpecTimed's
\* callers make them
RequestOn(c) == GetOrCreate(c, FALSE) \/ \E d \in TimedDiffs : Update(c, d, FALSE)

\* C4: a getOrCreate, or an update that does not throw, leaves the session's
\* last_activity within one second of the time of the call (no step that
\* leaves it further off is such a call), and a run of cleanupStale removes
\* no session whose last activity is at most sessionTimeout less one second
\* old, nor a binding to it (no step that removes one is such a run)
C4_Touch ==
  [][/\ \A c \in ConnectionIds :
          (/\ HasSession(sessions', connectionToSession', c)
           /\ LET la == RowRec(heap', sessions', connectionToSession', c).last_activity
              IN la - now' > OneSecondMs \/ now' - la > OneSecondMs)
            => ~RequestOn(c)
     /\ (\E q \in sessions :
           /\ now - heap[q[2]].last_activity <= sessionTimeout - OneSecondMs
           /\ \/ q \notin sessions'
              \/ \E p \in connectionToSession : p[2] = q[1] /\ p \notin connectionToSession')
          => ~RunCleanupStale]_vars

\* the interval has just run cleanupStale and a session last active 25
\* minutes before is still there
C4_Witness ==
  /\ nextCleanupAt = now + CleanupIntervalMs
  /\ \E c \in ConnectionIds :
       /\ HasSession(sessions, connectionToSession, c)
       /\ now - RowRec(heap, sessions, connectionToSession, c).last_activity
            = sessionTimeout - CleanupIntervalMs

\* C5: every row is referenced by a binding and every binding refers to a row
C5_RowsAndBindings ==
  /\ \A q \in sessions : \E p \in connectionToSession : p[2] = q[1]
  /\ \A p \in connectionToSession : MapHas(sessions, p[2])

\* cleanupStale has removed one connection's session and the other's remains
C5_Witness ==
  /\ reaped # {}
  /\ Cardinality(sessions) = 1
  /\ Cardinality(connectionToSession) = 1

\* C6: a connection id has at most one binding, and getOrCreate on a bound
\* connection leaves the bindings as they are
C6_OneBinding ==
  [][/\ \A p, q \in connectionToSession' : p[1] = q[1] => p = q
     /\ \A c \in ConnectionIds :
          (MapHas(connectionToSession, c) /\ CallGetOrCreate(c)) =>
            connectionToSession' = connectionToSession]_vars

\* both connections are bound and one of them has been handed its session at
\* a later time than the session was created
C6_Witness ==
  /\ Cardinality(connectionToSession) = 2
  /\ \E c \in ConnectionIds :
       /\ HasSession(sessions, connectionToSession, c)
       /\ lastSeen[c] > RowRec(heap, sessions, connectionToSession, c).created_at

\* C7: the last_activity values a connection is returned never decrease
C7_Monotonic == [][\A c \in ConnectionIds : lastSeen'[c] >= lastSeen[c]]_vars

\* a connection whose session was reclaimed has a new session and has been
\* handed it at a later time
C7_Witness ==
  \E c \in ConnectionIds :
    /\ HasSession(sessions, connectionToSession, c)
    /\ RowRec(heap, sessions, connectionToSession, c).created_at > sessionTimeout
    /\ lastSeen[c] > RowRec(heap, sessions, connectionToSession, c).created_at

\* C8: a run of cleanupStale removes every session whose last activity is
\* more than sessionTimeout old, with every binding to it, and removes no
\* session whose last activity is at most sessionTimeout old
C8_CleanupStale ==
  [][RunCleanupStale =>
       \A q \in sessions :
         /\ now - heap[q[2]].last_activity > sessionTimeout =>
              /\ ~MapHas(sessions', q[1])
              /\ \A p \in connectionToSession' : p[2] # q[1]
         /\ now - heap[q[2]].last_activity <= sessionTimeout =>
              /\ q \in sessions'
              /\ \A p \in connectionToSession : p[2] = q[1] => p \in connectionToSession']_vars

\* the latest run removed a session and left one whose last activity is
\* exactly sessionTimeout old
C8_Witness ==
  /\ reaped # {}
  /\ \E c \in ConnectionIds :
       /\ c \notin reaped
       /\ HasSession(sessions, connectionToSession, c)
       /\ now - RowRec(heap, sessions, connectionToSession, c).last_activity = sessionTimeout

C10_UpdateStamps ==
  [][\A c \in ConnectionIds :
       (/\ HasSession(sessions, connectionToSession, c)
        /\ \/ ~HasSession(sessions', connectionToSession', c)
           \/ RowRec(heap', sessions', connectionToSession', c).last_activity # now')
         => ~CallUpdate(c)]_vars

\* the caller holds the result of an update whose diff carried last_activity
\* 0, made at a later time
C10_Witness ==
  /\ held.op = "update"
  /\ held.fresh
  /\ heap[held.ref].lang = "en"
  /\ now > 0
  /\ heap[held.ref].last_activity = now
  /\ RowRec(heap, sessions, connectionToSession, held.conn).last_activity = now

\* C11: get(c) for a connection that has no session returns null and adds
\* neither a row nor a binding: the two maps and the stored objects stay as
\* they are
C11_GetDoesNotCreate ==
  [][\A c \in ConnectionIds :
       (~HasSession(sessions, connectionToSession, c) /\ Get(c, TRUE)) =>
         /\ held'.ref = NoRef
         /\ sessions' = sessions
         /\ connectionToSession' = connectionToSession
         /\ \A q \in sessions : heap'[q[2]] = heap[q[2]]
         /\ lastSeen' = lastSeen]_vars

\* the caller holds the null that get returned for a connection whose
\* session had been removed, and the store is empty
C11_Witness ==
  /\ held = [ref |-> NoRef, op |-> "get", conn |-> "c1", fresh |-> TRUE]
  /\ lastSeen["c1"] >= 0
  /\ sessions = {}
  /\ connectionToSession = {}

\* the TTL the documentation gives as the default
SevenDaysMs == 7 * 24 * 60 * 60 * 1000

\* C12: a run of cleanupStale removes no session whose last activity is less
\* than seven days old
C12_SevenDayTTL ==
  [][RunCleanupStale =>
       \A q \in sessions :
         now - heap[q[2]].last_activity < SevenDaysMs => q \in sessions']_vars

\* the envelope a call carries: what is under `arguments`, or the call itself
Incoming(raw) ==
  IF Has(raw, "arguments") /\ raw["arguments"].t = "object" THEN raw["arguments"].v ELSE raw
\* the envelope has no context object
LacksContext(e) == ~Has(e, "context") \/ e["context"].t # "object"
\* the envelope's context has no session id: none, one that is no string, a blank one
LacksSessionId(e) ==
  \/ LacksContext(e)
  \/ ~Has(e["context"].v, "session_id")
  \/ e["context"].v["session_id"].t # "string"
  \/ e["context"].v["session_id"].v = BlankId
\* a tool call has just been made
JustCalled == lastCall' # lastCall

WrapperKeys == {"signal", "_meta", "requestId", "progressToken"}

\* C14: after a tool call, wrapped in `arguments` or not, neither the envelope
\* the bridge works on nor the request it sends has one of the keys signal,
\* _meta, requestId, progressToken
C14_NoWrapperKeys ==
  lastCall # NoCall =>
    /\ DOMAIN lastCall.envelope \cap WrapperKeys = {}
    /\ DOMAIN lastCall.sent \cap WrapperKeys = {}

\* the call had the wrapper keys beside `arguments` and under it, and the
\* envelope kept the other keys that were under it
C14_Witness ==
  /\ lastCall # NoCall
  /\ Has(lastCall.raw, "arguments")
  /\ WrapperKeys \subseteq DOMAIN lastCall.raw
  /\ WrapperKeys \subseteq DOMAIN lastCall.raw["arguments"].v
  /\ Has(lastCall.envelope, "extra")
  /\ Has(lastCall.sent, "payload")

\* C15: after a tool call, every key of the envelope it carried that is not a
\* wrapper key is in the request sent, with its value (the context merged
\* with the session, an absent payload made an object)
C15_RemainderRouted ==
  lastCall # NoCall =>
    LET e == Incoming(lastCall.raw)
    IN /\ \A k \in DOMAIN e \ (WrapperKeys \cup {"arguments", "context", "payload", "reasoning_md"}) :
            Has(lastCall.sent, k) /\ lastCall.sent[k] = e[k]
       /\ (Has(e, "payload") /\ e["payload"].t = "object") => lastCall.sent["payload"] = e["payload"]
       /\ (Has(e, "reasoning_md") /\ e["reasoning_md"].len > 0) =>
            lastCall.sent["reasoning_md"] = e["reasoning_md"]
       /\ Has(lastCall.sent, "context")

\* C16: a tool call whose envelope has no payload is sent on, and the request
\* carries the empty object as its payload
C16_MissingPayload ==
  (lastCall # NoCall /\ ~Has(Incoming(lastCall.raw), "payload")) =>
    /\ DOMAIN lastCall.sent = {"context", "payload", "reasoning_md"}
    /\ lastCall.sent["payload"] = [t |-> "object", v |-> <<>>]

\* a call wrapped in `arguments` with a reasoning and no payload has been
\* sent on with the empty payload and its reasoning
C16_Witness ==
  /\ lastCall # NoCall
  /\ Has(lastCall.raw, "arguments")
  /\ DOMAIN Incoming(lastCall.raw) = {"reasoning_md"}
  /\ lastCall.sent["payload"].v = <<>>
  /\ lastCall.sent["reasoning_md"] = Incoming(lastCall.raw)["reasoning_md"]

\* ---- the Overseer's claims
\* the request the Overseer has taken up, and what became of it
Rejected == run.phase = "done" /\ run.response.code = "E_BAD_PAYLOAD_SCHEMA"
Accepted == run.phase # "idle" /\ ~Rejected
StrictRequest ==
  run.phase # "idle"
  /\ ("strict_mode" \in DOMAIN run.request => run.request["strict_mode"].v = TRUE)
FieldLen(o, k) == IF k \in DOMAIN o THEN o[k].len ELSE 0
FieldSize(o, k) == IF k \in DOMAIN o THEN o[k].size ELSE 0

\* C17: in strict mode a request is rejected when its intent has fewer than 5
\* characters, or its work or its context_info has no entry, or its
\* reasoning_md has fewer than 10 characters; a request that meets all four
\* thresholds is accepted.
C17_StrictThresholds ==
  StrictRequest =>
    LET payload == run.request["payload"].v
        short == \/ FieldLen(payload, "intent") < 5
                 \/ FieldSize(payload, "work") = 0
                 \/ FieldSize(payload, "context_info") = 0
                 \/ FieldLen(run.request, "reasoning_md") < 10
    IN (short => Rejected /\ run.response.field # "-") /\ (~short => Accepted)
\* a strict request that fails on reasoning_md alone has been rejected
C17_Witness ==
  /\ StrictRequest /\ Rejected /\ run.response.field = "reasoning_md"
  /\ FieldLen(run.request["payload"].v, "intent") = 5
  /\ FieldLen(run.request, "reasoning_md") = 9

\* C18: with strict_mode=false a request whose intent has at least 1 character
\* is accepted, also when it comes through the bridge's tool with work,
\* context_info and reasoning_md omitted.
C18_RelaxedAccepted ==
  /\ (run.phase # "idle" /\ ~StrictRequest
      /\ FieldLen(run.request["payload"].v, "intent") >= 1) => Accepted
  /\ LET e == Incoming(lastCall.raw)
     IN (/\ lastCall # NoCall
         /\ Has(e, "strict_mode") /\ e["strict_mode"].v = FALSE
         /\ Has(e, "payload") /\ IsObject(e["payload"])
         /\ FieldLen(e["payload"].v, "intent") >= 1) => lastCall.verdict = ""

\* the invocations of the orchestration in progress, in order
Invocations == DOMAIN run.log
IsError(i) == run.log[i].outcome \in ErrorClasses
IsLast(i) == i = Len(run.log)

\* C19: once Eye K of the routed sequence has returned "clarification
\* required", no Eye with an index greater than K is invoked in that
\* orchestration: the invocation is the last one, the run is over and its
\* response tells the host to submit clarifications.
C19_ClarificationStops ==
  \A i \in Invocations :
    run.log[i].outcome = "clarify" =>
      /\ \A j \in Invocations : j <= i /\ run.log[j].k <= run.log[i].k
      /\ run.phase = "done"
      /\ run.response.next_action = "submit_clarifications"
\* the first of two routed Eyes has asked for clarifications
C19_Witness ==
  /\ run.phase = "done" /\ Len(run.route) = 2 /\ Len(run.log) >= 1
  /\ run.log[Len(run.log)].outcome = "clarify"
  /\ run.log[Len(run.log)].k = 1

\* the invocation after i is the retry of i: same Eye, same input
RetriedNext(i) ==
  IF IsLast(i)
    THEN run.phase = "running" /\ run.k = run.log[i].k /\ run.attempt = 2
         /\ run.results = run.log[i].input.prior /\ run.request = run.log[i].input.request
    ELSE /\ run.log[i + 1].k = run.log[i].k /\ run.log[i + 1].eye = run.log[i].eye
         /\ run.log[i + 1].attempt = 2
         /\ run.log[i + 1].input = run.log[i].input
\* the failure of invocation i ended the pipeline
Terminated(i) ==
  /\ IsLast(i) /\ run.phase = "done"
  /\ ~run.response.ok /\ run.response.code = "E_ORCHESTRATION_FAILED"
  /\ run.response.partial_results = run.log[i].input.prior
  /\ Len(run.response.partial_results) = run.log[i].k - 1
\* an Eye is invoked a second time only as the retry of a failed first attempt
OnlyRetries ==
  \A i \in Invocations :
    /\ run.log[i].attempt \in {1, 2}
    /\ run.log[i].attempt = 2 => i > 1 /\ run.log[i - 1].attempt = 1 /\ IsError(i - 1)
                                 /\ run.log[i - 1].k = run.log[i].k

C25_FieldIsKey ==
  /\ \A p \in sessions : heap[p[2]].session_id = p[1]
  /\ \A c \in ConnectionIds :
       HasSession(sessions, connectionToSession, c) =>
         RowRec(heap, sessions, connectionToSession, c).session_id = MapGet(connectionToSession, c)

\* the value a call supplied for field f of its context is, as it stands,
\* the value y
SuppliedAsIs(f, x, y) ==
  IF x.t = "string" THEN (f \in {"session_id", "user_id", "tenant"} => ~x.pad) /\ x.v = y
  ELSE IF x.t = "null" THEN f \in {"user_id", "tenant"} /\ y = Null
  ELSE IF x.t = "number" THEN f = "budget_tokens" /\ x.v = y
  ELSE FALSE
\* the value is one the bridge takes over: a text that is not blank (or null)
\* for user_id and tenant, a text that is not blank for session_id, one of the
\* three languages, a number that is not negative
TakenOver(f, x) ==
  IF f = "session_id" THEN x.t = "string" /\ x.v # BlankId
  ELSE IF f \in {"user_id", "tenant"} THEN (x.t = "string" /\ x.v # "") \/ x.t = "null"
  ELSE IF f = "lang" THEN x.t = "string" /\ x.v \in {"en", "ar", "auto"}
  ELSE (x.t = "number" /\ x.v >= 0) \/ x.t = "null"
\* the value without its padding, null as null, null as the number 0
Normalised(f, x) ==
  IF x.t = "null" THEN (IF f = "budget_tokens" THEN 0 ELSE Null) ELSE x.v
\* the call being made omits its context and follows a call that had one
SecondOmitsContext ==
  /\ JustCalled /\ lastCall # NoCall
  /\ ~LacksContext(Incoming(lastCall.raw))
  /\ LacksContext(Incoming(lastCall'.raw))

C27_UpdateThrows ==
  [][\A c \in ConnectionIds : \A d \in Diffs \cup TimedDiffs :
       (~HasSession(sessions, connectionToSession, c) /\ Update(c, d, TRUE)) =>
         /\ held'.op = "update throws" /\ held'.ref = NoRef
         /\ sessions' = sessions
         /\ connectionToSession' = connectionToSession
         /\ \A q \in sessions : heap'[q[2]] = heap[q[2]]
         /\ lastSeen' = lastSeen]_vars
\* the caller holds the Error that update threw for a connection whose
\* session had been removed, and the store is empty
C27_Witness ==
  /\ held.op = "update throws" /\ held.fresh
  /\ lastSeen[held.conn] >= 0
  /\ ~HasSession(sessions, connectionToSession, held.conn)
  /\ sessions = {} /\ connectionToSession = {}

\* C28 as claimed: get(c) changes no field of the stored session, so a
\* session that is only read is reclaimed once it is older than the timeout.
C28_AsClaimed ==
  [][\A c \in ConnectionIds :
       (HasSession(sessions, connectionToSession, c) /\ CallGet(c)) =>
         RowRec(heap', sessions', connectionToSession', c)
           = RowRec(heap, sessions, connectionToSession, c)]_vars

\* C28: get(c) for a connection that has a session adds and removes
\* nothing and changes no field of the stored session but last_activity,
\* which it sets to the time of the call; every other session stays as it
\* is.  A session that is only read is reclaimed by cleanupStale only when
\* the last read is more than the timeout ago.
C28_GetTouches ==
  [][/\ \A c \in ConnectionIds :
          (HasSession(sessions, connectionToSession, c) /\ CallGet(c)) =>
            /\ sessions' = sessions /\ connectionToSession' = connectionToSession
            /\ RowRec(heap', sessions', connectionToSession', c)
                 = [RowRec(heap, sessions, connectionToSession, c) EXCEPT !.last_activity = now]
            /\ \A q \in sessions :
                 q[1] # MapGet(connectionToSession, c) => heap'[q[2]] = heap[q[2]]
     /\ IntervalFire => \A c \in reaped' : now - lastSeen[c] > sessionTimeout]_vars
\* get has just returned a session that was created longer ago than the
\* timeout and has only been read since
C28_Witness ==
  /\ held.op = "get" /\ held.fresh /\ held.ref # NoRef
  /\ heap[held.ref].created_at + sessionTimeout + CleanupIntervalMs < now
  /\ heap[held.ref].last_activity = now
  /\ HasSession(sessions, connectionToSession, held.conn)
  /\ RowRec(heap, sessions, connectionToSession, held.conn).last_activity = now

\* C29: getDynamicInstructions looks the session up under the connection id
\* the tool calls use, so when it is called after a tool call has created a
\* session it finds that session.
C29_InstructionsFindSession ==
  (/\ currentConnectionId # Null
   /\ HasSession(sessions, connectionToSession, currentConnectionId)
   /\ RowRec(heap, sessions, connectionToSession, currentConnectionId).created_at
        < instructions.at) =>
    /\ instructions.conn = currentConnectionId
    /\ instructions.text # "no session"

\* ---- the encryption utilities
\* C30: within one process, what encrypt made of a plaintext decrypts to
\* that plaintext, and so does what encryptForStorage made of it, whether or
\* not an encryption key is configured.
C30_RoundTrip ==
  crypto.out.done => crypto.out.ok /\ crypto.out.text = crypto.plaintext

Stream(s) == bus.subs[s].delivered \o bus.subs[s].queue

\* C22: of two events published to one session, the one published earlier
\* has the smaller sequence number, in the topic and in what every
\* subscriber observes, and every subscriber is handed its events in
\* strictly increasing sequence order
C22_EventOrder ==
  /\ \A x \in Topics : \A i, j \in DOMAIN bus.published[x] :
       bus.published[x][i].ts < bus.published[x][j].ts =>
         bus.published[x][i].seq < bus.published[x][j].seq
  /\ \A s \in Subscribers : \A i, j \in DOMAIN Stream(s) :
       /\ Stream(s)[i].ts < Stream(s)[j].ts => Stream(s)[i].seq < Stream(s)[j].seq
       /\ i < j => Stream(s)[i].seq < Stream(s)[j].seq

\* a subscriber that lost an event took two events published at different
\* instants
C22_Witness ==
  \E s \in Subscribers :
    /\ bus.subs[s].drops > 0
    /\ Len(bus.subs[s].delivered) >= 2
    /\ bus.subs[s].delivered[1].ts < bus.subs[s].delivered[2].ts

\* C23: publish to an open session can always be taken, whatever the
\* subscribers' queues hold; a subscriber of the session whose queue is full
\* loses its oldest undelivered event, has its drop counter incremented and
\* gets the new event; a subscriber whose queue has room gets the new event
\* and loses nothing; subscribers of other sessions are untouched
C23_PublishNeverBlocks ==
  /\ [](\A x \in Topics :
          (x \notin bus.closed /\ PublishedOn(bus, Topics) < MaxEvents) => ENABLED Publish(x))
  /\ [][\A x \in Topics :
          Len(bus'.published[x]) > Len(bus.published[x]) =>
            LET e == bus'.published[x][Len(bus'.published[x])]
            IN \A s \in Subscribers :
                 LET old == bus.subs[s]
                     new == bus'.subs[s]
                 IN /\ (old.session = x /\ Len(old.queue) >= QueueSize) =>
                         /\ new.queue = Append(Tail(old.queue), e)
                         /\ new.drops = old.drops + 1
                    /\ (old.session = x /\ Len(old.queue) < QueueSize) =>
                         /\ new.queue = Append(old.queue, e)
                         /\ new.drops = old.drops
                    /\ new.delivered = old.delivered
                    /\ old.session # x => new = old]_vars

\* two subscribers of one session: the slow one has lost an event and holds
\* the latest one, the other one has lost nothing and has taken every event
C23_Witness ==
  \E s, r \in Subscribers, x \in Topics :
    /\ bus.subs[s].session = x /\ bus.subs[r].session = x
    /\ bus.subs[s].drops > 0
    /\ Len(bus.subs[s].queue) = QueueSize
    /\ bus.subs[s].queue[QueueSize].seq = bus.seq[x]
    /\ bus.subs[r].drops = 0
    /\ bus.subs[r].queue = <<>>
    /\ Len(bus.subs[r].delivered) = bus.seq[x]

\* C24: the latest admin request, if it is a POST, PUT or DELETE and its
\* header differs from its cookie, or the header's signature is not the
\* server's HMAC of its token and timestamp, or its timestamp is more than
\* 3600 s away from the instant of the request, was rejected with
\* E_CSRF_FAILED
C24_CsrfRejected ==
  LET r == csrf.request
  IN (/\ r.method \in {"POST", "PUT", "DELETE"}
      /\ \/ r.header # r.cookie
         \/ r.header.signature # <<"server secret", r.header.token, r.header.timestamp>>
         \/ r.at - r.header.timestamp > 3600
         \/ r.header.timestamp - r.at > 3600)
       => csrf.response = "E_CSRF_FAILED"

\* a token the server issued, sent unchanged as header and cookie one second
\* after its validity ended, is rejected
C24_Witness ==
  /\ csrf.request.method \in {"POST", "PUT", "DELETE"}
  /\ csrf.request.header \in csrf.issued
  /\ csrf.request.header = csrf.request.cookie
  /\ csrf.request.at - csrf.request.header.timestamp = 3601
  /\ csrf.response = "E_CSRF_FAILED"

====
